---- MODULE Spec2Model ----
(***************************************************************************)
(* wccg-context: the context-request / context-provider protocol.          *)
(*                                                                         *)
(* Modelled from the source: ContextRequestEvent, ContextProviderEvent and *)
(* registerContextProvider (src/src/context-providers.ts).                 *)
(* Modelled from the specification (its source file is not part of the     *)
(* tree): the resolution buffer "ContextRoot" (attach, detach, the request *)
(* listener and the announcement listener with its replay pass).           *)
(***************************************************************************)
EXTENDS Integers, Sequences, FiniteSets, TLC

\* ------------------------------------------------------------------ bounds
\* how many top-level operations (script calls and promise resolutions) a run takes
MaxOps == 5

\* ------------------------------------------------------------- the DOM tree
\* document > body > { a, host } ; host carries a shadow root sr > s
Nodes == {"doc", "body", "a", "host", "sr", "s"}

NoNode == "none"

\* parent on the composed path (both events are {bubbles: true, composed: true})
Parent(n) ==
  CASE n = "body" -> "doc"
    [] n = "a"    -> "body"
    [] n = "host" -> "body"
    [] n = "sr"   -> "host"
    [] n = "s"    -> "sr"
    [] OTHER      -> NoNode

\* Node.getRootNode(): the document, or the shadow root of a shadow tree
getRootNode(n) == IF n \in {"sr", "s"} THEN "sr" ELSE "doc"

RECURSIVE Path(_)
\* the propagation path of a bubbling, composed event raised at n
Path(n) == IF n = NoNode THEN <<>> ELSE <<n>> \o Path(Parent(n))

Range(q) == {q[i] : i \in 1..Len(q)}

\* n is rootNode or lies below it
Under(n, rootNode) == rootNode \in Range(Path(n))

\* ------------------------------------------------------------ input spaces
Contexts == {"c1", "c2"}
\* a symbol-like token spelled like the string context "c1"
SymbolC1 == "Symbol(c1)"
\* the context identifiers of the runs that mix both kinds
AllContexts == Contexts \cup {SymbolC1}
\* what an identifier is spelled with: the string itself, the description of
\* a symbol-like token
Spelling(c) == IF c = SymbolC1 THEN "c1" ELSE c
ReqIds   == {"r1", "r2"}
ProvIds  == {"p1", "p2"}
\* nodes a consumer raises a request at
Origins  == {"a", "s"}
\* nodes given as options.target
Targets  == {"body", "a", "s"}
\* nodes the buffer is attached to
Roots    == {"body", "a"}

Undefined == "undefined"

\* what a consumer's deliver does, the first time it can, besides taking the
\* value: nothing, raise the request of the other consumer, or register the
\* second provider (which announces)
Effects == {"none", "request", "announce"}

\* handlerOrValue: a static value, or a handler resolving to a value, resolving
\* to undefined, or failing (it throws before it returns, or the promise it
\* returns rejects) for the requests raised at FailsAt and resolving to a
\* value for the others
Behaviours == {"static", "handler", "handlerUndefined", "handlerThrows",
               "handlerRejects"}

\* the contextTarget the failing handlers cannot serve
FailsAt == "s"

\* the value provider p holds
ValueOf(p) == IF p = "p1" THEN "v1" ELSE "v2"

\* the buffer's request listener, as an entry of a node's listener list
RootListener == "root"

NoReq == [raised |-> FALSE, context |-> "none", contextTarget |-> NoNode,
          subscribe |-> FALSE, throws |-> FALSE, early |-> FALSE,
          effect |-> "none"]

\* options.signal: none given, an AbortSignal not aborted yet, or one already
\* aborted when registerContextProvider is called
Signals == {"none", "live", "aborted"}

NoProv == [state |-> "none", context |-> "none", target |-> NoNode,
           listenerTarget |-> NoNode, stopPropagation |-> FALSE,
           handlerOrValue |-> "static", capture |-> FALSE, signal |-> "none"]

VARIABLES
  load,          \* the host's globals and how loading the module went
  reqs,          \* ReqIds -> the request each consumer raised (its callback is the id)
  provs,         \* ProvIds -> the closure state of each registerContextProvider call
  reqListeners,  \* Nodes -> 'context-request' listeners in registration order
  attached,      \* nodes the buffer listens on (both signal kinds)
  pending,       \* the buffer's RequestRecords, in arrival order
  micro,         \* contextListener invocations suspended at their await
  log,           \* every invocation of a deliver callback, in order
  trace,         \* the request dispatches of the last operation
  passes,        \* number of replay passes so far
  errors,        \* number of console.error calls
  hist,          \* observations kept for the properties
  ops            \* operations taken that changed the state

vars == <<load, reqs, provs, reqListeners, attached, pending, micro, log, trace,
          passes, errors, hist, ops>>


\* the program state the operations below transform
State == [reqs |-> reqs, provs |-> provs, L |-> reqListeners,
          attached |-> attached, pending |-> pending, micro |-> micro,
          log |-> log, trace |-> <<>>, passes |-> passes, errors |-> errors]

\* ------------------------------------------------------------ module load
\* the hosts the module is loaded in: globalThis.HTMLElement and
\* globalThis.Event are defined or not
Hosts == [HTMLElement : BOOLEAN, Event : BOOLEAN]

\* a browser, with the module loaded
Loaded == [HTMLElement |-> TRUE, Event |-> TRUE, status |-> "loaded",
           warned |-> FALSE]

\* a load guard that only warns when globalThis.Event is missing, too
LoadModuleWarnOnly(l) ==
  [l EXCEPT !.warned = ~l.HTMLElement \/ ~l.Event, !.status = "loaded"]

\* the module body: console.warn when HTMLElement is undefined, throw when
\* Event is undefined, otherwise the exports become available
LoadModule(l) ==
  [l EXCEPT !.warned = ~l.HTMLElement,
            !.status = IF ~l.Event THEN "failed" ELSE "loaded"]

\* ---------------------------------------------------------- signal types
\* a constructor that leaves contextTarget unset
ContextRequestEventNoTarget(context, contextTarget, callback, subscribe) ==
  [type |-> "context-request", context |-> context,
   contextTarget |-> NoNode, callback |-> callback, subscribe |-> subscribe]

\* new ContextRequestEvent(context, contextTarget, callback, subscribe)
ContextRequestEvent(context, contextTarget, callback, subscribe) ==
  [type |-> "context-request", context |-> context,
   contextTarget |-> contextTarget, callback |-> callback,
   subscribe |-> subscribe]

\* a constructor that leaves the announcing node unset
ContextProviderEventNoTarget(context, contextTarget) ==
  [type |-> "context-provider", context |-> context, contextTarget |-> NoNode]

\* new ContextProviderEvent(context, contextTarget)
ContextProviderEvent(context, contextTarget) ==
  [type |-> "context-provider", context |-> context,
   contextTarget |-> contextTarget]

\* ------------------------------------------------- registerContextProvider
\* the operators on the way from a deliver callback back to a deliver
\* callback: a deliver may dispatch a request or register a provider itself
RECURSIVE SideEffect(_, _)
RECURSIVE InvokeCallback(_, _, _, _, _)
RECURSIVE DeliverValue(_, _, _, _, _)
RECURSIVE contextListener(_, _, _, _)
RECURSIVE DispatchRequest(_, _, _, _)
RECURSIVE onContextProvider(_, _)
RECURSIVE DispatchProvider(_, _, _)
RECURSIVE registerContextProvider(_, _, _, _, _, _, _, _)

\* contextEvent.callback(value): the consumer's deliver runs, synchronously
\* and to its end, with whatever it raises itself, and may throw.
\* The call has one argument: deliver's second parameter, the unsubscribe
\* thunk, is undefined.
InvokeCallback(S, cb, p, value, pass) ==
  SideEffect([S EXCEPT !.log =
                 Append(@, [callback |-> cb, prov |-> p, value |-> value,
                            unsubscribe |-> Undefined, pass |-> pass,
                            threw |-> S.reqs[cb].throws])],
             cb)

\* a catch block that also takes the failing provider's listener down
catchErrorRemovesListener(S, p) ==
  [S EXCEPT !.L[S.provs[p].listenerTarget] = SelectSeq(@, LAMBDA x : x # p)]

\* catch (error) { console.error(...) }: the error is logged and dropped
catchError(S, p) == [S EXCEPT !.errors = @ + 1]

\* the try block once the value is known: deliver unless it is undefined
DeliverValue(S, cb, p, value, pass) ==
  IF value # Undefined
    THEN LET S1 == InvokeCallback(S, cb, p, value, pass)
         IN  IF S.reqs[cb].throws THEN catchError(S1, p) ELSE S1
    ELSE S

\* stopPropagation() in place of stopImmediatePropagation(): the listeners
\* left on the same node still run
StopKindSameNodeRuns(stopPropagation) ==
  IF stopPropagation THEN "node" ELSE "no"

\* if (stopPropagation) contextEvent.stopImmediatePropagation()
StopKind(stopPropagation) == IF stopPropagation THEN "immediate" ELSE "no"

\* the handler of provider p fails for the request of consumer cb
HandlerFails(S, p, cb) ==
  /\ S.provs[p].handlerOrValue \in {"handlerThrows", "handlerRejects"}
  /\ S.reqs[cb].contextTarget = FailsAt

\* a contextListener that awaits the static value too
contextListenerAlwaysAwaits(A, p, ev, pass) ==
  LET pr == A.S.provs[p]
  IN  IF ev.context # pr.context
        THEN A
        ELSE
          LET k == StopKind(pr.stopPropagation)
          IN  [A EXCEPT !.stop = IF k # "no" THEN k ELSE @,
                        !.taken = Append(@, p),
                        !.S.micro =
                          Append(@, [callback |-> ev.callback, prov |-> p,
                                     pass |-> pass])]

\* a contextListener that compares the identifiers by their spelling
contextListenerBySpelling(A, p, ev, pass) ==
  LET pr == A.S.provs[p]
  IN  IF Spelling(ev.context) # Spelling(pr.context)
        THEN A
        ELSE
          LET k  == StopKind(pr.stopPropagation)
              A1 == [A EXCEPT !.stop = IF k # "no" THEN k ELSE @,
                              !.taken = Append(@, p)]
          IN  CASE pr.handlerOrValue = "static" ->
                     [A1 EXCEPT !.S = DeliverValue(@, ev.callback, p,
                                                   ValueOf(p), pass)]
                [] /\ pr.handlerOrValue = "handlerThrows"
                   /\ HandlerFails(A.S, p, ev.callback) ->
                     [A1 EXCEPT !.S = catchError(@, p)]
                [] OTHER ->
                     [A1 EXCEPT !.S.micro =
                        Append(@, [callback |-> ev.callback, prov |-> p,
                                   pass |-> pass])]

\* contextListener up to its first await.  A is the dispatch in progress:
\* the state, how far propagation was stopped, and the listeners run so far.
contextListener(A, p, ev, pass) ==
  LET pr == A.S.provs[p]
  IN  IF ev.context # pr.context
        THEN A
        ELSE
          LET k  == StopKind(pr.stopPropagation)
              A1 == [A EXCEPT !.stop = IF k # "no" THEN k ELSE @,
                              !.taken = Append(@, p)]
          IN  CASE pr.handlerOrValue = "static" ->
                     [A1 EXCEPT !.S = DeliverValue(@, ev.callback, p,
                                                   ValueOf(p), pass)]
                [] /\ pr.handlerOrValue = "handlerThrows"
                   /\ HandlerFails(A.S, p, ev.callback) ->
                     [A1 EXCEPT !.S = catchError(@, p)]
                [] OTHER ->
                     [A1 EXCEPT !.S.micro =
                        Append(@, [callback |-> ev.callback, prov |-> p,
                                   pass |-> pass])]

\* a contextListener that hands the consumer what the handler settled with,
\* fulfilled or rejected
ResumeListenerRejectionDelivered(S, m) ==
  IF S.provs[m.prov].handlerOrValue = "handlerUndefined"
    THEN DeliverValue(S, m.callback, m.prov, Undefined, m.pass)
    ELSE DeliverValue(S, m.callback, m.prov, ValueOf(m.prov), m.pass)

\* contextListener after the await, for the suspended invocation m
ResumeListener(S, m) ==
  CASE HandlerFails(S, m.prov, m.callback) -> catchError(S, m.prov)
    [] S.provs[m.prov].handlerOrValue = "handlerUndefined" ->
         DeliverValue(S, m.callback, m.prov, Undefined, m.pass)
    [] OTHER ->
         DeliverValue(S, m.callback, m.prov, ValueOf(m.prov), m.pass)

\* ------------------------------------------------------- resolution buffer
RequestRecord(ev) ==
  [context |-> ev.context, originNode |-> ev.contextTarget,
   deliver |-> ev.callback, subscribe |-> ev.subscribe]

\* a request listener of the buffer that ends the request's propagation
onContextRequestStops(A, ev) ==
  [A EXCEPT !.S.pending = Append(@, RequestRecord(ev)),
            !.stored = TRUE, !.stop = "immediate"]

\* the buffer's request listener: store a record, deliver nothing, stop
\* nothing.  A request has one record: a re-dispatched request that reaches
\* the root again while its record is pending leaves that record as it is.
onContextRequest(A, ev) ==
  IF \E i \in 1..Len(A.S.pending) : A.S.pending[i] = RequestRecord(ev)
    THEN A
    ELSE [A EXCEPT !.S.pending = Append(@, RequestRecord(ev)),
                   !.stored = TRUE]

\* ------------------------------------------------------ event propagation
\* listener who was added with {capture: true} (the buffer's was not)
CaptureOf(S, who) == who # RootListener /\ S.provs[who].capture

\* the listeners of node n added for the capture (cap) or the bubble phase
ListenersAt(S, n, cap) ==
  LET q == SelectSeq(S.L[n], LAMBDA w : CaptureOf(S, w) = cap)
  IN  [i \in 1..Len(q) |-> [node |-> n, who |-> q[i]]]

RECURSIVE PhaseListeners(_, _, _)
\* the listeners of one phase along nodes, in the order given
PhaseListeners(S, nodes, cap) ==
  IF nodes = <<>> THEN <<>>
  ELSE ListenersAt(S, Head(nodes), cap) \o PhaseListeners(S, Tail(nodes), cap)

Reverse(q) == [i \in 1..Len(q) |-> q[Len(q) + 1 - i]]

\* the listeners an event raised at Head(path) meets: the capturing listeners
\* of its ancestors, outermost first, then the listeners of the node itself,
\* then the bubbling listeners of its ancestors, nearest first
FlatListeners(S, path) ==
  IF path = <<>> THEN <<>>
  ELSE PhaseListeners(S, Reverse(Tail(path)), TRUE)
       \o ListenersAt(S, Head(path), TRUE)
       \o ListenersAt(S, Head(path), FALSE)
       \o PhaseListeners(S, Tail(path), FALSE)

RECURSIVE RunListeners(_, _, _, _)
RunListeners(A, fl, ev, pass) ==
  IF fl = <<>> \/ A.stop = "immediate" THEN A
  ELSE
    LET l == Head(fl)
    IN  IF A.stop = "node" /\ l.node # A.stopNode
          THEN A
          ELSE
            LET A0 == [A EXCEPT !.seen = Append(@, l.who)]
                A1 == IF l.who = RootListener
                        THEN onContextRequest(A0, ev)
                        ELSE contextListener(A0, l.who, ev, pass)
                A2 == IF A.stop = "no" /\ A1.stop # "no"
                        THEN [A1 EXCEPT !.stopNode = l.node] ELSE A1
            IN  RunListeners(A2, Tail(fl), ev, pass)

\* node.dispatchEvent(ev) for a request event; pass = 0 for a consumer's own
\* dispatch, the number of the replay pass otherwise
DispatchRequest(S, ev, node, pass) ==
  LET A == RunListeners([S |-> S, stop |-> "no", stopNode |-> NoNode,
                         seen |-> <<>>, taken |-> <<>>, stored |-> FALSE],
                        FlatListeners(S, Path(node)), ev, pass)
  IN  [A EXCEPT !.S.trace =
         Append(@, [callback |-> ev.callback, context |-> ev.context,
                    contextTarget |-> ev.contextTarget,
                    subscribe |-> ev.subscribe, at |-> node, pass |-> pass,
                    seen |-> A.seen, taken |-> A.taken, stop |-> A.stop,
                    stored |-> A.stored])]

RemoveRecord(q, r) == SelectSeq(q, LAMBDA x : x # r)

RECURSIVE ReplayRecordsForgets(_, _, _, _)
\* a replay that drops every record it has re-dispatched
ReplayRecordsForgets(S, matches, node, pass) ==
  IF matches = <<>> THEN S
  ELSE
    LET m == Head(matches)
        A == DispatchRequest(S, ContextRequestEvent(m.context, m.originNode,
                                                    m.deliver, m.subscribe),
                             node, pass)
    IN  ReplayRecordsForgets([A.S EXCEPT !.pending = RemoveRecord(@, m)],
                             Tail(matches), node, pass)

RECURSIVE ReplayRecordsLive(_, _, _, _)
\* a replay that walks the live collection: a record stored while the pass
\* runs is re-dispatched by the same pass
ReplayRecordsLive(S, matches, node, pass) ==
  IF matches = <<>> THEN S
  ELSE
    LET m  == Head(matches)
        A  == DispatchRequest(S, ContextRequestEvent(m.context, m.originNode,
                                                     m.deliver, m.subscribe),
                              node, pass)
        S1 == IF A.stop # "no" /\ ~m.subscribe
                THEN [A.S EXCEPT !.pending = RemoveRecord(@, m)]
                ELSE A.S
        new == SelectSeq(S1.pending, LAMBDA r :
                  /\ r.context = m.context
                  /\ r \notin Range(S.pending)
                  /\ r \notin Range(matches))
    IN  ReplayRecordsLive(S1, Tail(matches) \o new, node, pass)

RECURSIVE ReplayRecords(_, _, _, _)
\* re-dispatch each record of the snapshot at the announcing node
ReplayRecords(S, matches, node, pass) ==
  IF matches = <<>> THEN S
  ELSE
    LET m  == Head(matches)
        A  == DispatchRequest(S, ContextRequestEvent(m.context, m.originNode,
                                                     m.deliver, m.subscribe),
                              node, pass)
        S1 == IF A.stop # "no" /\ ~m.subscribe
                THEN [A.S EXCEPT !.pending = RemoveRecord(@, m)]
                ELSE A.S
    IN  ReplayRecords(S1, Tail(matches), node, pass)

\* the buffer's announcement listener: one replay pass
onContextProvider(S, ev) ==
  LET matches == SelectSeq(S.pending, LAMBDA r : r.context = ev.context)
      pass    == S.passes + 1
  IN  ReplayRecords([S EXCEPT !.passes = pass], matches, ev.contextTarget, pass)

RECURSIVE AnnounceAlong(_, _, _)
AnnounceAlong(S, path, ev) ==
  IF path = <<>> THEN S
  ELSE AnnounceAlong(IF Head(path) \in S.attached
                       THEN onContextProvider(S, ev) ELSE S,
                     Tail(path), ev)

\* node.dispatchEvent(ev) for an announcement event
DispatchProvider(S, ev, node) == AnnounceAlong(S, Path(node), ev)


\* listenerTarget.addEventListener('context-request', contextListener,
\* addEventListenerOptions): nothing is added when options.signal is aborted
\* already
addEventListener(q, p, signal) ==
  IF signal = "aborted" THEN q ELSE Append(q, p)

\* a registerContextProvider that announces before its listener is installed
registerContextProviderAnnounceFirst(S, p, context, handlerOrValue, target, stopPropagation, capture, signal) ==
  LET listenerTarget == getRootNode(target)
      S1 == DispatchProvider(S, ContextProviderEvent(context, target), target)
  IN  [S1 EXCEPT
         !.provs[p] = [state |-> "active", context |-> context,
                       target |-> target, listenerTarget |-> listenerTarget,
                       stopPropagation |-> stopPropagation,
                       handlerOrValue |-> handlerOrValue,
                       capture |-> capture, signal |-> signal],
         !.L[listenerTarget] = addEventListener(@, p, signal)]

\* a registerContextProvider that raises its announcement at the listener's
\* node instead of the target
registerContextProviderAnnounceAtRoot(S, p, context, handlerOrValue, target, stopPropagation, capture, signal) ==
  LET listenerTarget == getRootNode(target)
      S1 == [S EXCEPT
               !.provs[p] = [state |-> "active", context |-> context,
                             target |-> target,
                             listenerTarget |-> listenerTarget,
                             stopPropagation |-> stopPropagation,
                             handlerOrValue |-> handlerOrValue,
                             capture |-> capture, signal |-> signal],
               !.L[listenerTarget] = addEventListener(@, p, signal)]
  IN  DispatchProvider(S1, ContextProviderEvent(context, target),
                       listenerTarget)

\* registerContextProvider(context, handlerOrValue, {target, stopPropagation,
\* capture, signal}): install the request listener on the target's root node
\* with the remaining options, then announce at the target
registerContextProvider(S, p, context, handlerOrValue, target, stopPropagation, capture, signal) ==
  LET listenerTarget == getRootNode(target)
      S1 == [S EXCEPT
               !.provs[p] = [state |-> "active", context |-> context,
                             target |-> target,
                             listenerTarget |-> listenerTarget,
                             stopPropagation |-> stopPropagation,
                             handlerOrValue |-> handlerOrValue,
                             capture |-> capture, signal |-> signal],
               !.L[listenerTarget] = addEventListener(@, p, signal)]
  IN  DispatchProvider(S1, ContextProviderEvent(context, target), target)

\* the consumer the deliver of cb raises a request for
NestedConsumer(cb) == IF cb = "r1" THEN "r2" ELSE "r1"

\* the provider the deliver of a consumer registers
NestedProvider == "p2"

\* What the deliver of consumer cb does besides taking the value, inside the
\* provider's call of it.  "request": the other consumer, not heard of yet,
\* dispatches a non-subscribing request for the same context at node a.
\* "announce": the second provider, not registered yet, is registered for
\* the same context with a static value and the default options.  Either
\* runs to its end, nested dispatches and replay passes included, before
\* deliver returns.
SideEffect(S, cb) ==
  LET e == S.reqs[cb].effect
      c == S.reqs[cb].context
      r == NestedConsumer(cb)
  IN  CASE e = "request" /\ ~S.reqs[r].raised ->
             DispatchRequest(
               [S EXCEPT !.reqs[r] =
                  [raised |-> TRUE, context |-> c, contextTarget |-> "a",
                   subscribe |-> FALSE, throws |-> FALSE, early |-> FALSE,
                   effect |-> "none"]],
               ContextRequestEvent(c, "a", r, FALSE), "a", 0).S
        [] e = "announce" /\ S.provs[NestedProvider].state = "none" ->
             registerContextProvider(S, NestedProvider, c, "static", "body",
                                     TRUE, FALSE, "none")
        [] OTHER -> S

\* the function registerContextProvider returns:
\* listenerTarget.removeEventListener('context-request', contextListener).
\* No options are given, so the listener looked for is the one of the bubble
\* phase: a listener added with {capture: true} stays.
removeProvider(S, p) ==
  [S EXCEPT !.provs[p].state = "removed",
            !.L[S.provs[p].listenerTarget] =
               IF S.provs[p].capture THEN @ ELSE SelectSeq(@, LAMBDA x : x # p)]

\* an abort that leaves the listener in place
abortIgnored(S, p) == [S EXCEPT !.provs[p].signal = "aborted"]

\* options.signal is aborted: the listener added with it is removed
abort(S, p) ==
  [S EXCEPT !.provs[p].signal = "aborted",
            !.L[S.provs[p].listenerTarget] = SelectSeq(@, LAMBDA x : x # p)]

\* an attach that subscribes again on a node it is attached to already
attachAgain(S, rootNode) ==
  [S EXCEPT !.attached = @ \cup {rootNode},
            !.L[rootNode] = Append(@, RootListener)]

\* attach(rootNode): listen for both signal kinds, once per node
attach(S, rootNode) ==
  IF rootNode \in S.attached THEN S
  ELSE [S EXCEPT !.attached = @ \cup {rootNode},
                 !.L[rootNode] = Append(@, RootListener)]

\* a detach that releases the records under a node it is not attached to
detachUnguarded(S, rootNode) ==
  [S EXCEPT !.attached = @ \ {rootNode},
            !.L[rootNode] = SelectSeq(@, LAMBDA x : x # RootListener),
            !.pending = SelectSeq(@, LAMBDA r :
                                       ~Under(r.originNode, rootNode))]

\* detach(rootNode): remove both listeners and release the records whose
\* origin lies under rootNode; nothing happens for a node never attached
detach(S, rootNode) ==
  IF rootNode \notin S.attached THEN S
  ELSE [S EXCEPT !.attached = @ \ {rootNode},
                 !.L[rootNode] = SelectSeq(@, LAMBDA x : x # RootListener),
                 !.pending = SelectSeq(@, LAMBDA r :
                                            ~Under(r.originNode, rootNode))]

\* ------------------------------------------------------------ the machine
Started ==
  /\ reqs = [r \in ReqIds |-> NoReq]
  /\ provs = [p \in ProvIds |-> NoProv]
  /\ reqListeners = [n \in Nodes |-> <<>>]
  /\ attached = {}
  /\ pending = <<>>
  /\ micro = <<>>
  /\ log = <<>>
  /\ trace = <<>>
  /\ passes = 0
  /\ errors = 0
  /\ hist = [answeredDirect |-> {}, arrival |-> <<>>, purged |-> {},
             detachCalled |-> {}, late |-> {}, owed |-> {}, passLog |-> <<>>,
             failed |-> {}, again |-> {}]
  /\ ops = 0

\* the module is loaded in a browser and nothing was called yet
Init == load = Loaded /\ Started

\* the module is about to be loaded in some host
InitLoad ==
  /\ load \in {[HTMLElement |-> h.HTMLElement, Event |-> h.Event,
                 status |-> "unloaded", warned |-> FALSE] : h \in Hosts}
  /\ Started

\* the variables an operation rewrites, from the state S it produced and
\* the observations H made of it; an operation that changes neither is not
\* counted
Commit(S, H) ==
  /\ load.status = "loaded"
  /\ UNCHANGED load
  /\ reqs' = S.reqs
  /\ provs' = S.provs
  /\ reqListeners' = S.L
  /\ attached' = S.attached
  /\ pending' = S.pending
  /\ micro' = S.micro
  /\ log' = S.log
  /\ trace' = S.trace
  /\ passes' = S.passes
  /\ errors' = S.errors
  /\ hist' = H
  /\ ops' = IF S = State /\ H = hist THEN ops ELSE ops + 1

Deliveries(S) == {S.pending[i].deliver : i \in 1..Len(S.pending)}

\* the consumers with a record pending whose node is n or lies below it
BufferedUnder(n) ==
  {r \in Deliveries(State) : Under(reqs[r].contextTarget, n)}

\* what a detach(n) is expected to release, and when it was called
Released(n) ==
  {[req |-> r, passes |-> passes, logLen |-> Len(log)] : r \in BufferedUnder(n)}

\* import of the module (mod.ts) in the host
Load ==
  /\ load.status = "unloaded"
  /\ load' = LoadModule(load)
  /\ UNCHANGED <<reqs, provs, reqListeners, attached, pending, micro, log,
                 trace, passes, errors, hist, ops>>

\* the attempts of the last operation in which a handler failed
FailedIn(S) ==
  {f \in [req : ReqIds, prov : ProvIds] :
     /\ HandlerFails(S, f.prov, f.req)
     /\ \E i \in 1..Len(S.trace) :
           /\ S.trace[i].callback = f.req
           /\ f.prov \in Range(S.trace[i].taken)}

\* root.attach(n)
Attach(n) ==
  /\ ops < MaxOps
  /\ Commit(attach(State, n), hist)

\* root.attach(n) for a node attached already, observed
AttachAgain(n) ==
  /\ ops < MaxOps
  /\ n \in attached
  /\ Commit(attach(State, n), [hist EXCEPT !.again = @ \cup {n}])

\* root.detach(n)
Detach(n) ==
  /\ ops < MaxOps
  /\ LET S == detach(State, n)
     IN  Commit(S, [hist EXCEPT
               !.purged = @ \cup
                  IF n \in attached THEN Released(n) ELSE {},
               !.detachCalled = @ \cup Released(n)])

\* a consumer at node o dispatches new ContextRequestEvent(c, o, callback, sub);
\* its deliver throws or not and has the given effect
RequestThen(r, c, o, sub, throws, effect) ==
  /\ ops < MaxOps
  /\ ~reqs[r].raised
  /\ LET early == \A p \in ProvIds :
                     provs[p].state = "none" \/ provs[p].context # c
         S0 == [State EXCEPT
                  !.reqs[r] = [raised |-> TRUE, context |-> c,
                               contextTarget |-> o, subscribe |-> sub,
                               throws |-> throws, early |-> early,
                               effect |-> effect]]
         A  == DispatchRequest(S0, ContextRequestEvent(c, o, r, sub), o, 0)
     IN  Commit(A.S, [hist EXCEPT
               !.answeredDirect =
                  IF \E i \in 1..Len(A.taken) :
                        A.S.provs[A.taken[i]].stopPropagation
                    THEN @ \cup {r} ELSE @,
               !.arrival = IF A.stored THEN Append(@, r) ELSE @,
               !.failed = @ \cup FailedIn(A.S)])

\* a consumer whose deliver only takes the value
Request(r, c, o, sub, throws) == RequestThen(r, c, o, sub, throws, "none")

\* registerContextProvider(c, h, {target: t, stopPropagation: stop,
\* capture: cap, signal: sig}).  passLog gets one entry per replay pass run
\* before the call returns, in the order the passes began; the first is the
\* pass of the attached root nearest to t, and its snapshot is what was
\* pending for c when the call was made.
Register(p, c, h, t, stop, cap, sig) ==
  /\ ops < MaxOps
  /\ provs[p].state = "none"
  /\ LET S == registerContextProvider(State, p, c, h, t, stop, cap, sig)
         first == \A q \in ProvIds :
                     provs[q].state = "none" \/ provs[q].context # c
     IN  Commit(S, [hist EXCEPT
               !.passLog = @ \o
                  [k \in 1..(S.passes - passes) |->
                     [prov |-> p, context |-> c, at |-> t,
                      roots |-> Cardinality({n \in attached : Under(t, n)}),
                      first |-> k = 1,
                      snapshot |->
                        IF k = 1
                          THEN LET q == SelectSeq(pending, LAMBDA x :
                                                     x.context = c)
                               IN  [i \in 1..Len(q) |-> q[i].deliver]
                          ELSE <<>>,
                      disp |-> SelectSeq(S.trace, LAMBDA d :
                                            d.pass = passes + k)]],
               !.owed = @ \cup
                  {[req |-> r, prov |-> p,
                    reached |-> \E n \in attached : Under(t, n)] :
                     r \in {x \in Deliveries(State) : reqs[x].context = c}},
               !.failed = @ \cup FailedIn(S),
               !.late = @ \cup
               {[req |-> r, prov |-> p, first |-> first,
                 held |-> /\ r \in Deliveries(State)
                          /\ \E n \in attached : Under(t, n)] :
                  r \in {x \in ReqIds : /\ reqs[x].raised
                                        /\ reqs[x].early
                                        /\ x \in Range(hist.arrival)
                                        /\ reqs[x].subscribe
                                        /\ reqs[x].context = c
                                        /\ h \in {"static", "handler"}}}])

\* the cleanup function of provider p is called
Deregister(p) ==
  /\ ops < MaxOps
  /\ provs[p].state = "active"
  /\ Commit(removeProvider(State, p), hist)

\* the AbortSignal given to provider p as options.signal is aborted
Abort(p) ==
  /\ ops < MaxOps
  /\ provs[p].state # "none"
  /\ provs[p].signal = "live"
  /\ Commit(abort(State, p), hist)

\* the promise awaited by the i-th suspended contextListener settles
Resolve(i) ==
  /\ i \in 1..Len(micro)
  /\ LET m  == micro[i]
         S0 == [State EXCEPT !.micro =
                  [j \in 1..(Len(micro) - 1) |->
                     IF j < i THEN micro[j] ELSE micro[j + 1]]]
         S  == ResumeListener(S0, m)
     IN  Commit(S, hist)

\* Consumers and providers are numbered in the order they act.  The first
\* consumer and the first provider name the first context; only the first
\* consumer's callback throws; the second consumer sits at node a; the first
\* provider is given a target, the second is registered with a static value
\* and the default options (target document.body, stopPropagation
\* true).  A run has two consumers and one provider, or one consumer and two
\* providers.
RequestInputs ==
  {x \in [r : ReqIds, c : Contexts, o : Origins, sub : BOOLEAN,
          throws : BOOLEAN] :
     /\ x.r = "r1" => x.c = "c1"
     /\ x.r = "r2" => /\ reqs["r1"].raised
                      /\ provs["p2"].state = "none"
                      /\ x.o = "a"
                      /\ ~x.throws}

RegisterInputsOf(H) ==
  {x \in [p : ProvIds, c : Contexts, h : H, t : Targets, stop : BOOLEAN] :
     /\ x.p = "p1" => (x.c = "c1" /\ x.t # "body")
     /\ x.p = "p2" => /\ provs["p1"].state # "none"
                      /\ ~reqs["r2"].raised
                      /\ x.h = "static"
                      /\ x.t = "body"
                      /\ x.stop}

\* the handlers that fail do so by rejecting
RegisterInputs == RegisterInputsOf(Behaviours \ {"handlerThrows"})

Next ==
  \/ \E n \in Roots : Attach(n)
  \/ \E n \in Roots : Detach(n)
  \/ \E x \in RequestInputs : Request(x.r, x.c, x.o, x.sub, x.throws)
  \/ \E x \in RegisterInputs :
        Register(x.p, x.c, x.h, x.t, x.stop, FALSE, "none")
  \/ \E p \in ProvIds : Deregister(p)
  \/ \E i \in 1..Len(micro) : Resolve(i)

Spec == Init /\ [][Next]_vars

\* The providers' options.  The first provider is registered with any
\* stopPropagation, capture and signal; the buffer is attached and never
\* detached; the handlers resolve to a value and no callback throws.
OptionInputs ==
  {x \in [p : ProvIds, c : Contexts, h : {"static", "handler"}, t : Targets,
          stop : BOOLEAN, cap : BOOLEAN, sig : Signals] :
     /\ x.p = "p1" => (x.c = "c1" /\ x.t # "body")
     /\ x.p = "p2" => /\ provs["p1"].state # "none"
                      /\ ~reqs["r2"].raised
                      /\ x.h = "static"
                      /\ x.t = "body"
                      /\ x.stop /\ ~x.cap /\ x.sig = "none"}

NextOptions ==
  \/ \E n \in Roots : Attach(n)
  \/ \E x \in {y \in RequestInputs : ~y.throws} :
        Request(x.r, x.c, x.o, x.sub, x.throws)
  \/ \E x \in OptionInputs :
        Register(x.p, x.c, x.h, x.t, x.stop, x.cap, x.sig)
  \/ \E p \in ProvIds : Deregister(p)
  \/ \E p \in ProvIds : Abort(p)
  \/ \E i \in 1..Len(micro) : Resolve(i)

SpecOptions == Init /\ [][NextOptions]_vars

\* The module is loaded in any host; then the buffer is attached at the
\* body and consumers and providers act, the handlers failing either way.
NextLoad ==
  \/ Load
  \/ Attach("body")
  \/ \E x \in RequestInputs : Request(x.r, x.c, x.o, x.sub, x.throws)
  \/ \E x \in RegisterInputsOf(Behaviours) :
        Register(x.p, x.c, x.h, x.t, x.stop, FALSE, "none")
  \/ \E i \in 1..Len(micro) : Resolve(i)

SpecLoad == InitLoad /\ [][NextLoad]_vars

\* The buffer's operations, repeated ones observed; the providers hold a
\* static value and no callback throws.
NextRoot ==
  \/ \E n \in Roots : Attach(n)
  \/ \E n \in Roots : AttachAgain(n)
  \/ \E n \in Roots : Detach(n)
  \/ \E x \in {y \in RequestInputs : ~y.throws} :
        Request(x.r, x.c, x.o, x.sub, x.throws)
  \/ \E x \in RegisterInputsOf({"static"}) :
        Register(x.p, x.c, x.h, x.t, x.stop, FALSE, "none")
  \/ \E p \in ProvIds : Deregister(p)

SpecRoot == Init /\ [][NextRoot]_vars

\* Deliver callbacks with an effect.  The providers hold a static value, so
\* every deliver runs inside the dispatch that reached the provider; the
\* first provider's target is node a, so the listener a nested registration
\* adds goes to the node whose listeners are running and is not run for the
\* request being dispatched.
ReentrantRequestInputs ==
  {x \in [r : ReqIds, c : Contexts, o : Origins, sub : BOOLEAN,
          effect : Effects] :
     /\ x.r = "r1" => x.c = "c1"
     /\ x.r = "r2" => /\ reqs["r1"].raised
                      /\ provs["p2"].state = "none"
                      /\ x.o = "a"
                      /\ x.effect = "none"}

NextReentrant ==
  \/ \E n \in Roots : Attach(n)
  \/ \E x \in ReentrantRequestInputs :
        RequestThen(x.r, x.c, x.o, x.sub, FALSE, x.effect)
  \/ \E x \in {y \in RegisterInputsOf({"static"}) :
                  y.p = "p1" => y.t = "a"} :
        Register(x.p, x.c, x.h, x.t, x.stop, FALSE, "none")

SpecReentrant == Init /\ [][NextReentrant]_vars

\* Identifiers of both kinds.  The first consumer names the string "c1";
\* the second consumer and both providers name any identifier, the symbol-like
\* token spelled "c1" included; the buffer is attached and never detached and
\* no callback throws.
ContextRequestInputs ==
  {x \in [r : ReqIds, c : AllContexts, o : Origins, sub : BOOLEAN] :
     /\ x.r = "r1" => x.c = "c1"
     /\ x.r = "r2" => /\ reqs["r1"].raised
                      /\ provs["p2"].state = "none"
                      /\ x.o = "a"}

ContextRegisterInputs ==
  {x \in [p : ProvIds, c : AllContexts, h : {"static", "handler"},
          t : Targets, stop : BOOLEAN] :
     /\ x.p = "p1" => x.t # "body"
     /\ x.p = "p2" => /\ provs["p1"].state # "none"
                      /\ x.h = "static"
                      /\ x.t = "body"
                      /\ x.stop}

NextContexts ==
  \/ \E n \in Roots : Attach(n)
  \/ \E x \in ContextRequestInputs : Request(x.r, x.c, x.o, x.sub, FALSE)
  \/ \E x \in ContextRegisterInputs :
        Register(x.p, x.c, x.h, x.t, x.stop, FALSE, "none")
  \/ \E i \in 1..Len(micro) : Resolve(i)

SpecContexts == Init /\ [][NextContexts]_vars

TypeOK ==
  /\ attached \subseteq Roots
  /\ ops \in 0..(MaxOps + 20)


\* ============================================================ properties

\* deliver of consumer r has been invoked with the value of provider p
DeliveredBy(r, p) ==
  \E i \in 1..Len(log) :
     log[i].callback = r /\ log[i].prov = p /\ log[i].value = ValueOf(p)

\* a contextListener of p is suspended at its await with r's request
Suspended(r, p) ==
  \E i \in 1..Len(micro) : micro[i].callback = r /\ micro[i].prov = p

\* C1 as stated: a subscribing request buffered before any provider for its
\* context existed is delivered the value of the first provider that later
\* announces that context holding a value, once that provider's handler has
\* settled, wherever the announcement is raised and whatever happened between.
C1_LateResolutionAnywhere ==
  \A e \in hist.late :
     e.first => (Suspended(e.req, e.prov) \/ DeliveredBy(e.req, e.prov))

\* C1 amended: the same, for a request whose record is still pending when the
\* announcement is raised at a node at or below a root the buffer is attached to.
C1_LateResolution ==
  \A e \in hist.late :
     (e.first /\ e.held) =>
        (Suspended(e.req, e.prov) \/ DeliveredBy(e.req, e.prov))

C1_Witness ==
  \E e \in hist.late :
     /\ e.first /\ e.held
     /\ provs[e.prov].handlerOrValue = "handler"
     /\ DeliveredBy(e.req, e.prov)

\* C2: a request with subscribe = false has its deliver invoked at most once.
C2_AtMostOneDelivery ==
  \A r \in ReqIds :
     (reqs[r].raised /\ ~reqs[r].subscribe) =>
        Cardinality({i \in 1..Len(log) : log[i].callback = r}) <= 1

\* C3: a request taken at its own dispatch by a provider that stops
\* propagation is never stored by the buffer and never delivered by a replay.
C3_StoppedNeverBuffered ==
  \A r \in hist.answeredDirect :
     /\ r \notin Range(hist.arrival)
     /\ \A i \in 1..Len(log) : log[i].callback = r => log[i].pass = 0


\* x was stored by the buffer before y
ArrivedBefore(x, y) ==
  \E i, j \in 1..Len(hist.arrival) :
     i < j /\ hist.arrival[i] = x /\ hist.arrival[j] = y

\* C4 as stated: within one replay pass deliver is invoked in the order the
\* requests arrived at the buffer.
C4_DeliverInArrivalOrder ==
  \A i, j \in 1..Len(log) :
     (i < j /\ log[i].pass > 0 /\ log[i].pass = log[j].pass) =>
        ~ArrivedBefore(log[j].callback, log[i].callback)

\* C4 amended: within one replay pass the requests are re-dispatched in the
\* order they arrived, and the deliveries made by a static-value provider
\* (made during the dispatch) follow that order; deliveries deferred by an
\* asynchronous handler complete in any order.
C4_ReplayInArrivalOrder ==
  /\ \A k \in 1..Len(hist.passLog) :
        \A i, j \in 1..Len(hist.passLog[k].disp) :
           i < j => ~ArrivedBefore(hist.passLog[k].disp[j].callback,
                                   hist.passLog[k].disp[i].callback)
  /\ \A i, j \in 1..Len(log) :
        (/\ i < j /\ log[i].pass > 0 /\ log[i].pass = log[j].pass
         /\ provs[log[i].prov].handlerOrValue = "static"
         /\ provs[log[j].prov].handlerOrValue = "static") =>
           ~ArrivedBefore(log[j].callback, log[i].callback)

C4_Witness ==
  \E i, j \in 1..Len(log) :
     /\ i < j /\ log[i].pass > 0 /\ log[i].pass = log[j].pass
     /\ provs[log[i].prov].handlerOrValue = "static"
     /\ ArrivedBefore(log[i].callback, log[j].callback)

\* C5 as stated: once detach(node) was called, no request buffered with its
\* origin under node is delivered through a replay any more.
C5_NoReplayDeliveryAfterDetach ==
  \A d \in hist.detachCalled :
     \A i \in 1..Len(log) :
        (i > d.logLen /\ log[i].callback = d.req) => log[i].pass = 0

\* C5 amended: once detach(node) was called on an attached node, the requests
\* buffered with their origin under node are no longer pending and no replay
\* pass started afterwards re-dispatches or delivers them (a delivery an
\* asynchronous handler deferred before the detach may still complete).
C5_DetachPurges ==
  \A d \in hist.purged :
     /\ d.req \notin Deliveries(State)
     /\ \A i \in 1..Len(log) :
           log[i].callback = d.req => log[i].pass <= d.passes
     /\ \A k \in 1..Len(hist.passLog) :
           k > d.passes =>
              \A i \in 1..Len(hist.passLog[k].disp) :
                 hist.passLog[k].disp[i].callback # d.req

\* a replay pass for the purged request's context ran after the detach
C5_Witness ==
  \E d \in hist.purged :
     \E k \in 1..Len(hist.passLog) :
        /\ k > d.passes
        /\ hist.passLog[k].context = reqs[d.req].context
        /\ \A i \in 1..Len(log) : log[i].callback # d.req

\* consumer r was served by provider p in replay pass k: delivered, or its
\* delivery is suspended at the handler's await
Served(r, p, k) ==
  \/ \E i \in 1..Len(log) :
        log[i].callback = r /\ log[i].prov = p /\ log[i].pass = k
  \/ \E i \in 1..Len(micro) :
        micro[i].callback = r /\ micro[i].prov = p /\ micro[i].pass = k

\* the record of consumer r is pending
Pending(r) == r \in Deliveries(State)

\* C6: when a deliver callback throws in a replay pass, every other request
\* re-dispatched in that pass is still served by the same provider, and after
\* the pass a record is gone exactly if it was stopped and not subscribing.
C6_FaultyConsumerIsolated ==
  /\ \A e \in Range(log) :
        (e.threw /\ e.pass > 0) =>
           \A d \in Range(hist.passLog[e.pass].disp) :
              Served(d.callback, e.prov, e.pass)
  /\ \A d \in Range(trace) :
        (d.pass > 0 /\ \E e \in Range(log) : e.threw /\ e.pass = d.pass) =>
           (Pending(d.callback) <=>
              ~(d.stop # "no" /\ ~reqs[d.callback].subscribe))

C6_Witness ==
  \E e \in Range(log) :
     /\ e.threw /\ e.pass > 0
     /\ \E f \in Range(log) :
           /\ f.callback # e.callback /\ f.pass = e.pass /\ f.prov = e.prov
           /\ ArrivedBefore(e.callback, f.callback)
     /\ ~Pending(e.callback)

\* the dispatches of the replay passes provider p's registration started
ReplaysOf(p) ==
  UNION {Range(hist.passLog[k].disp) :
           k \in {j \in 1..Len(hist.passLog) : hist.passLog[j].prov = p}}

\* C7 as stated: every request for C pending when registerContextProvider is
\* called is replayed and taken by the newly registered provider.
C7_PendingAnsweredByNewProvider ==
  \A o \in hist.owed :
     \E d \in ReplaysOf(o.prov) :
        d.callback = o.req /\ o.prov \in Range(d.taken)

\* C7 amended: every request for C pending in a buffer attached at T or at an
\* ancestor of T is re-dispatched at T within the call, the new listener
\* being installed already: the new provider takes it unless a provider
\* registered earlier on the path stopped it first.
C7_PendingReplayedAtTarget ==
  \A o \in hist.owed :
     o.reached =>
        \E d \in ReplaysOf(o.prov) :
           /\ d.callback = o.req
           /\ d.at = provs[o.prov].target
           /\ \/ o.prov \in Range(d.taken)
              \/ \E q \in Range(d.taken) :
                    q # o.prov /\ provs[q].stopPropagation

C7_Witness ==
  \E o \in hist.owed :
     /\ o.reached
     /\ \E d \in ReplaysOf(o.prov) :
           d.callback = o.req /\ o.prov \in Range(d.taken)
     /\ Served(o.req, o.prov, Len(hist.passLog))

\* C8: a provider whose handler resolves to undefined neither delivers nor
\* stops the request.
C8_NoAnswerDoesNotStop ==
  /\ \A e \in Range(log) :
        provs[e.prov].handlerOrValue # "handlerUndefined"
  /\ \A d \in Range(trace) :
        (/\ d.taken # <<>>
         /\ provs[d.taken[Len(d.taken)]].handlerOrValue = "handlerUndefined")
           => d.stop = "no"

\* provider p takes requests for context c and stops them
Stops(p, c) ==
  p \in ProvIds /\ provs[p].context = c /\ provs[p].stopPropagation

C10_OnlyUnderTarget ==
  \A e \in Range(log) :
     Under(reqs[e.callback].contextTarget, provs[e.prov].target)

\* C11: after the function returned by registerContextProvider was invoked,
\* no request dispatched afterwards (by a consumer or by a replay) is taken,
\* that is answered or stopped, by that provider, whatever options it was
\* registered with.
C11_DeregisteredNeverAnswers ==
  \A d \in Range(trace) :
     \A p \in ProvIds :
        provs[p].state = "removed" => p \notin Range(d.taken)

C13_HandlerErrorRecovered ==
  /\ \A e \in Range(log) : ~HandlerFails(State, e.prov, e.callback)
  /\ \A f \in hist.failed : Suspended(f.req, f.prov) \/ errors > 0
  /\ \A p \in ProvIds :
        provs[p].state = "active" =>
           p \in Range(reqListeners[provs[p].listenerTarget])
  /\ \A d \in Range(trace) :
        \A p \in Range(d.taken) :
           (/\ ~HandlerFails(State, p, d.callback)
            /\ provs[p].handlerOrValue # "handlerUndefined") =>
              Served(d.callback, p, d.pass)

\* a handler's promise rejected for one consumer, the failure has settled,
\* and the same provider has delivered to the other consumer
C13_Witness ==
  \E f \in hist.failed :
     /\ provs[f.prov].handlerOrValue = "handlerRejects"
     /\ ~Suspended(f.req, f.prov) /\ errors > 0
     /\ \A e \in Range(log) : e.callback # f.req
     /\ \E r \in ReqIds : r # f.req /\ DeliveredBy(r, f.prov)

Count(q, x) == Cardinality({i \in 1..Len(q) : q[i] = x})

\* C15: however often attach was called on a node, the node carries the
\* buffer's listener once; a request reaching the buffer's roots has one
\* record and meets one buffer listener per attached root; an announcement
\* starts one replay pass per attached root it passes, and a pass
\* re-dispatches each matching record once.
C15_AttachIdempotent ==
  /\ \A n \in Nodes :
        Count(reqListeners[n], RootListener) = IF n \in attached THEN 1 ELSE 0
  /\ \A i, j \in 1..Len(pending) :
        i # j => pending[i].deliver # pending[j].deliver
  /\ \A d \in Range(trace) :
        Count(d.seen, RootListener) <=
           Cardinality({n \in attached : Under(d.at, n)})
  /\ \A k \in 1..Len(hist.passLog) :
        LET e == hist.passLog[k]
        IN  /\ Cardinality({j \in 1..Len(hist.passLog) :
                               hist.passLog[j].prov = e.prov}) = e.roots
            /\ \A i, j \in 1..Len(e.disp) :
                  i # j => e.disp[i].callback # e.disp[j].callback

\* attach was called again on the one attached node; a request is buffered
\* under it and an announcement has started one pass that re-dispatched it
C15_Witness ==
  \E n \in hist.again :
     /\ attached = {n}
     /\ Len(hist.passLog) = 1
     /\ hist.passLog[1].roots = 1
     /\ Len(hist.passLog[1].disp) = 1
     /\ Len(hist.arrival) = 1
     /\ Len(trace) = 1
     /\ Count(trace[1].seen, RootListener) = 1

\* C16: detach on a node the buffer is not attached to (never attached, or
\* detached already) changes nothing: the pending records, the listeners of
\* every node and the attached nodes stay as they are and nothing is logged.
C16_RedundantDetachNoOp ==
  [][\A n \in Roots :
       (n \notin attached /\ Detach(n)) =>
          UNCHANGED <<reqs, provs, reqListeners, attached, pending, micro,
                      log, passes, errors>>]_vars

\* detach was called on a node not attached while a record with its origin
\* under that node was pending at another attached root: the record is still
\* pending and the root still listens
C16_Witness ==
  \E d \in hist.detachCalled :
     /\ d \notin hist.purged
     /\ hist.purged = {}
     /\ Pending(d.req)
     /\ \E n \in attached : Count(reqListeners[n], RootListener) = 1

\* something of the package has been used
Used ==
  \/ \E r \in ReqIds : reqs[r].raised
  \/ \E p \in ProvIds : provs[p].state # "none"

\* C17 as stated: in a host that lacks HTMLElement or Event, loading fails
\* and nothing of the package becomes available.
C17_LoadFailsWithoutDom ==
  (load.status # "unloaded" /\ (~load.HTMLElement \/ ~load.Event)) =>
     (load.status = "failed" /\ ~Used)

\* C17 amended: loading fails, and nothing of the package is ever used,
\* exactly in a host that lacks Event; in a host that lacks HTMLElement only,
\* a warning is logged and the module loads.
C17_LoadFailsWithoutEvent ==
  /\ load.status # "unloaded" =>
        /\ load.status = "failed" <=> ~load.Event
        /\ load.warned <=> ~load.HTMLElement
  /\ load.status # "loaded" => ~Used

C17_Witness == load.status = "failed" /\ ~load.Event /\ load.HTMLElement

\* how often consumer r was served (delivered to, or its delivery is
\* suspended at a handler's await) in the replay passes of provider p
ServedInPassesOf(r, p) ==
  Cardinality({i \in 1..Len(log) :
                 /\ log[i].callback = r /\ log[i].pass > 0
                 /\ hist.passLog[log[i].pass].prov = p})
  + Cardinality({i \in 1..Len(micro) :
                   /\ micro[i].callback = r /\ micro[i].pass > 0
                   /\ hist.passLog[micro[i].pass].prov = p})

\* the replay passes of provider p's announcement that re-dispatched r
PassesReplaying(r, p) ==
  {k \in 1..Len(hist.passLog) :
     /\ hist.passLog[k].prov = p
     /\ \E d \in Range(hist.passLog[k].disp) : d.callback = r}

\* the requests raised before any provider for their context existed, with
\* the one provider registered for it since, holding a value, whose
\* announcement replayed them
EarlyReplayed ==
  {x \in [req : ReqIds, prov : ProvIds] :
     /\ reqs[x.req].raised /\ reqs[x.req].early
     /\ provs[x.prov].handlerOrValue \in {"static", "handler"}
     /\ \A q \in ProvIds \ {x.prov} :
           provs[q].state = "none" \/ provs[q].context # provs[x.prov].context
     /\ PassesReplaying(x.req, x.prov) # {}}

\* the buffer's part of C18: a request no provider took is not stopped and
\* not delivered, and where it met the buffer's listener it has a record; a
\* request raised before any provider for its context existed is delivered
\* to by replay passes only.
BufferOnlyStores ==
  /\ \A d \in Range(trace) :
        d.taken = <<>> =>
           /\ d.stop = "no"
           /\ \A e \in Range(log) :
                 ~(e.callback = d.callback /\ e.pass = d.pass)
           /\ RootListener \in Range(d.seen) => Pending(d.callback)
  /\ \A e \in Range(log) : reqs[e.callback].early => e.pass > 0

C19_RecordRetention ==
  /\ \A d \in Range(trace) :
        d.pass > 0 =>
           (Pending(d.callback) <=> ~(d.stop # "no" /\ ~d.subscribe))
  /\ \A o \in hist.owed :
        o.reached => \E d \in ReplaysOf(o.prov) : d.callback = o.req

\* a record not stopped in one pass stayed and was re-dispatched by the next
\* announcement, which stopped and removed it
C19_Witness ==
  \E r \in ReqIds :
     \E j, k \in 1..Len(hist.passLog) :
        /\ j < k /\ hist.passLog[j].prov # hist.passLog[k].prov
        /\ \E d \in Range(hist.passLog[j].disp) :
              d.callback = r /\ d.stop = "no"
        /\ \E d \in Range(hist.passLog[k].disp) :
              d.callback = r /\ d.stop # "no"
        /\ ~reqs[r].subscribe /\ ~Pending(r)

\* C20: every request of a replay pass is dispatched at the node the
\* announcement names, carries the context, origin node, deliver and
\* subscribe of the consumer's request, and meets only listeners on the
\* path from that node up, the announcing provider's among them unless a
\* listener before it stopped the request.
C20_ReplayAtAnnouncingNode ==
  \A k \in 1..Len(hist.passLog) :
     \A d \in Range(hist.passLog[k].disp) :
        /\ d.at = hist.passLog[k].at
        /\ d.at = provs[hist.passLog[k].prov].target
        /\ d.context = hist.passLog[k].context
        /\ d.context = reqs[d.callback].context
        /\ d.contextTarget = reqs[d.callback].contextTarget
        /\ d.subscribe = reqs[d.callback].subscribe
        /\ \A w \in Range(d.seen) :
              w # RootListener =>
                 provs[w].listenerTarget \in Range(Path(d.at))
        /\ \/ hist.passLog[k].prov \in Range(d.seen)
           \/ d.stop # "no"

\* a record was re-dispatched at an announcing node below the buffer's root
\* and the announcing provider, listening above that node, delivered
C20_Witness ==
  \E k \in 1..Len(hist.passLog) :
     \E d \in Range(hist.passLog[k].disp) :
        /\ d.at \notin attached
        /\ hist.passLog[k].prov \in Range(d.taken)
        /\ provs[hist.passLog[k].prov].listenerTarget # d.at
        /\ DeliveredBy(d.callback, hist.passLog[k].prov)

\* the consumers re-dispatched by the dispatches q, in order
CallbacksOf(q) == [i \in 1..Len(q) |-> q[i].callback]

\* the re-dispatches of r's record by the passes of the last operation (a
\* dispatch is entered in trace when it returns, a nested one before the one
\* it is nested in)
Redispatches(r) == {d \in Range(trace) : d.callback = r /\ d.pass > 0}

\* C21: the replay pass an announcement starts re-dispatches exactly the
\* records that were pending for its context before any callback ran, each
\* once and in arrival order, whatever the deliver callbacks it reaches raise
\* themselves (a new request, a new announcement with its own pass); and when
\* all passes are finished the collection holds no record twice, every record
\* is the one of a request a consumer raised, a subscribing record that was
\* re-dispatched is still there, and a record that was re-dispatched and is
\* gone does not subscribe and had a re-dispatch stopped.
C21_NoInterleavedReplay ==
  /\ \A j \in 1..Len(hist.passLog) :
        hist.passLog[j].first =>
           CallbacksOf(hist.passLog[j].disp) = hist.passLog[j].snapshot
  /\ \A i, j \in 1..Len(pending) : pending[i] = pending[j] => i = j
  /\ \A i \in 1..Len(pending) :
        LET r == pending[i].deliver
        IN  /\ reqs[r].raised
            /\ pending[i] = RequestRecord(
                  ContextRequestEvent(reqs[r].context, reqs[r].contextTarget,
                                      r, reqs[r].subscribe))
  /\ \A r \in ReqIds :
        Redispatches(r) # {} =>
           /\ reqs[r].subscribe => Pending(r)
           /\ ~Pending(r) => \E d \in Redispatches(r) : d.stop # "no"

\* a deliver reached by a replay pass raised a request that was stored, and
\* the pass went on with its snapshot
C21_Witness ==
  /\ Len(hist.passLog) = passes
  /\ passes > 0
  /\ hist.passLog[passes].first
  /\ hist.passLog[passes].snapshot = <<"r1">>
  /\ \E i, j \in 1..Len(trace) :
        /\ i < j
        /\ trace[i].callback = "r2" /\ trace[i].pass = 0 /\ trace[i].stored
        /\ trace[j].callback = "r1" /\ trace[j].pass = passes
  /\ Pending("r2")

\* a deliver reached by a replay pass registered a provider, whose
\* announcement ran a pass of its own inside the outer one
C21_NestedPass ==
  \E i, j \in 1..Len(trace) :
     i < j /\ trace[i].pass > trace[j].pass /\ trace[j].pass > 0

\* C22: a provider registered for context C takes (stops, delivers to, or
\* suspends for) only requests whose context is the very identifier C; the
\* replay passes of an announcement for C re-dispatch only records of C; and a
\* record that was stored and is gone was re-dispatched, and stopped, in a
\* pass of an announcement for its own context.
C22_ContextIsolation ==
  /\ \A d \in Range(trace) :
        /\ \A p \in Range(d.taken) : provs[p].context = d.context
        /\ d.stop # "no" =>
              \E p \in Range(d.taken) :
                 provs[p].stopPropagation /\ provs[p].context = d.context
  /\ \A i \in 1..Len(log) :
        provs[log[i].prov].context = reqs[log[i].callback].context
  /\ \A i \in 1..Len(micro) :
        provs[micro[i].prov].context = reqs[micro[i].callback].context
  /\ \A k \in 1..Len(hist.passLog) :
        \A d \in Range(hist.passLog[k].disp) :
           d.context = hist.passLog[k].context
  /\ \A r \in Range(hist.arrival) :
        ~Pending(r) =>
           \E k \in 1..Len(hist.passLog) :
              /\ hist.passLog[k].context = reqs[r].context
              /\ \E d \in Range(hist.passLog[k].disp) :
                    d.callback = r /\ d.stop # "no"

\* the second provider announced the string "c1" while a record for the
\* symbol-like token spelled "c1" was pending: the pass re-dispatched the
\* first consumer's record only, and the listener of the first provider,
\* registered for the token, ran for it and let it pass
C22_Witness ==
  /\ provs["p1"].context = SymbolC1
  /\ provs["p2"].context = "c1"
  /\ reqs["r2"].context = SymbolC1
  /\ Pending("r2")
  /\ \A d \in Range(trace) : d.callback # "r2"
  /\ \E d \in Range(trace) :
        /\ d.pass > 0
        /\ d.callback = "r1"
        /\ "p1" \in Range(d.seen)
        /\ "p1" \notin Range(d.taken)
        /\ "p2" \in Range(d.taken)

====
